---------------------------- MODULE Spec2Model ----------------------------
(***************************************************************************)
(* Model of the qickdawg NV pulse programs LockinODMR_johns,               *)
(* RabiSweep_johns and T1DelaySweep: the hardware calls that initialize()  *)
(* and body() issue, the reads acquire() asks for, and the reshape and     *)
(* reduction done by analyze_results().                                    *)
(*                                                                         *)
(* Arrays are kept as [shape, flat] with flat in row-major (C) order, as   *)
(* np.reshape lays them out.  Array values are exact rationals <<n, d>>    *)
(* with d > 0 in lowest terms (floating point rounding is not modelled).   *)
(* Python indices are 0-based; sequences here are 1-based, so index i of   *)
(* the source is position i + 1 of the model.                              *)
(***************************************************************************)
EXTENDS Integers, Sequences, FiniteSets, TLC

VARIABLES
    cls,        \* the program class that was instantiated
    cfg,        \* self.cfg: the values of the configuration attributes
    cfgAttrs,   \* the names of the attributes the configuration defines
    pc,         \* position in the life cycle of the program object
    calls,      \* hardware calls issued so far, in order
    qick_sweeps,\* self.qick_sweeps: the sweeps registered by add_sweep
    reads_per_rep, \* reads_per_rep handed to the base class acquire()
    levels,     \* level seen by the ADC in the window of each body ADC trigger
    data_shape, \* self.data_shape
    data,       \* the reads returned by the base class acquire(), flat
    result,     \* what acquire() / analyze_results() returned
    err         \* the exception that ended the last call, "" when none

vars == <<cls, cfg, cfgAttrs, pc, calls, qick_sweeps, reads_per_rep, levels,
          data_shape, data, result, err>>

(***************************************************************************)
(* Bounds of the model.                                                    *)
(***************************************************************************)
MaxTreg == 2     \* readout_integration_treg ranges over 1..MaxTreg
MaxDelay == 1    \* relax_delay_treg, adc_trigger_offset_treg in 0..MaxDelay
MaxDim == 2      \* rounds, reps, nsweep_points range over 1..MaxDim
MaxRank == 5     \* len(data_shape) ranges over 1..MaxRank
MaxElems == 8    \* number of reads in data is at most MaxElems
MaxRead == 2     \* every ADC level ranges over 1..MaxRead

Lockin == "LockinODMR_johns"
Rabi == "RabiSweep_johns"
T1 == "T1DelaySweep"
Classes == {Lockin, Rabi, T1}

(***************************************************************************)
(* Exact rational arithmetic.                                              *)
(***************************************************************************)
Abs(x) == IF x < 0 THEN -x ELSE x

RECURSIVE GCD(_, _)
GCD(a, b) == IF b = 0 THEN a ELSE GCD(b, a % b)

Norm(n, d) ==
    LET s == IF d < 0 THEN -1 ELSE 1
        g == GCD(Abs(n), Abs(d))
    IN  <<(s * n) \div g, (s * d) \div g>>

RInt(k) == <<k, 1>>
RAdd(a, b) == Norm(a[1] * b[2] + b[1] * a[2], a[2] * b[2])
RSub(a, b) == Norm(a[1] * b[2] - b[1] * a[2], a[2] * b[2])
RMul(a, b) == Norm(a[1] * b[1], a[2] * b[2])
RDiv(a, b) == Norm(a[1] * b[2], a[2] * b[1])

RECURSIVE RSum(_)
RSum(s) == IF s = <<>> THEN RInt(0) ELSE RAdd(s[1], RSum(Tail(s)))

RECURSIVE Prod(_)
Prod(s) == IF s = <<>> THEN 1 ELSE s[1] * Prod(Tail(s))

(***************************************************************************)
(* Configurations.                                                         *)
(***************************************************************************)
MaxGain == 30000

ScalingModes == {"linear", "exponential", "quadratic"}

\* The attributes whose value changes what the code does are drawn from
\* small sets; the others are passed through to the hardware calls and are
\* kept at one value per attribute.
BaseCfg ==
    [adc_channel |-> 0, mw_channel |-> 1, laser_gate_pmod |-> 2,
     mw_nqz |-> 1, laser_initialize_treg |-> 3, mw_delay_treg |-> 1,
     mw_start_treg |-> 1, mw_end_treg |-> 2, mw_pi2_treg |-> 1,
     mw_readout_delay_treg |-> 1, laser_on_treg |-> 3,
     delay_start_treg |-> 1, delay_end_treg |-> 4, adc_trig_offset_treg |-> 0]

CfgOf(ri, off, relax, pre, gain, n, mode) ==
    [a \in DOMAIN BaseCfg \cup
           {"readout_integration_treg", "adc_trigger_offset_treg",
            "relax_delay_treg", "pre_init", "mw_gain", "nsweep_points",
            "scaling_mode"} |->
        CASE a = "readout_integration_treg" -> ri
          [] a = "adc_trigger_offset_treg" -> off
          [] a = "relax_delay_treg" -> relax
          [] a = "pre_init" -> pre
          [] a = "mw_gain" -> gain
          [] a = "nsweep_points" -> n
          [] a = "scaling_mode" -> mode
          [] OTHER -> BaseCfg[a]]

Cfgs(c) ==
    {CfgOf(ri, off, relax, pre, gain, n, mode) :
        ri \in 1..MaxTreg,
        off \in IF c = Lockin THEN 0..MaxDelay ELSE {0},
        relax \in 0..MaxDelay,
        pre \in BOOLEAN,
        gain \in IF c = Lockin THEN {MaxGain, MaxGain + 1} ELSE {MaxGain},
        n \in 1..MaxDim,
        mode \in IF c = T1 THEN ScalingModes ELSE {"linear"}}

RequiredCfg(c) ==
    CASE c = Lockin ->
           {"readout_integration_treg", "adc_channel", "laser_gate_pmod",
            "relax_delay_treg", "mw_channel", "mw_nqz", "mw_gain",
            "nsweep_points", "pre_init", "reps", "laser_power"}
      [] c = Rabi ->
           {"adc_channel", "readout_integration_treg", "mw_channel",
            "mw_nqz", "mw_gain", "mw_freg", "mw_start_treg", "mw_end_treg",
            "nsweep_points", "pre_init", "laser_gate_pmod",
            "relax_delay_treg", "reps", "mw_delta_treg"}
      [] c = T1 ->
           {"adc_channel", "readout_integration_treg", "mw_channel",
            "mw_nqz", "mw_pi2_treg", "mw_gain", "scaling_mode",
            "delay_start_treg", "delay_end_treg", "nsweep_points",
            "pre_init", "laser_gate_pmod", "laser_on_treg",
            "relax_delay_treg", "reps", "readout_reference_start_treg",
            "laser_readout_offset_treg", "mw_readout_delay_treg"}

\* Every attribute the three classes read or require.
AllAttrs ==
    UNION {RequiredCfg(c) : c \in Classes} \cup DOMAIN CfgOf(1, 0, 0, FALSE, 0, 1, "linear")
        \cup {"mw_start_freg", "mw_start_fMHz", "mw_end_fMHz", "scaling_factor"}

\* check_cfg of the base class: every name of required_cfg is an attribute
\* of the configuration.
CheckCfg(c, attrs) == RequiredCfg(c) \subseteq attrs

(***************************************************************************)
(* Hardware calls.  A call is a record of the method name, the method that *)
(* issued it, and the arguments the model follows.                         *)
(***************************************************************************)
TAuto == -1      \* t is not given: the library's default

NoSweep == [kind |-> "", reg |-> "", start |-> "", stop |-> "", expts |-> 0,
            scaling_mode |-> ""]

HW(by, op) ==
    [op |-> op, by |-> by, ch |-> -1, adcs |-> {}, pins |-> {}, width |-> 0,
     t |-> TAuto, length |-> 0, adc_trig_offset |-> 0, sweep |-> NoSweep]

Ops(cs) == [i \in 1..Len(cs) |-> cs[i].op]

IsAdcTrigger(k) == k.op = "trigger" /\ k.adcs # {}

IssuedBy(cs, by) == SelectSeq(cs, LAMBDA k : k.by = by)

AdcTriggers(cs) == SelectSeq(IssuedBy(cs, "body"), IsAdcTrigger)

SweepsOf(cs) ==
    LET adds == SelectSeq(cs, LAMBDA k : k.op = "add_sweep")
    IN  [i \in 1..Len(adds) |-> adds[i].sweep]

(***************************************************************************)
(* LockinODMR_johns                                                        *)
(***************************************************************************)
LockinGainTooHigh(c) == c.mw_gain > MaxGain

LockinSweep(c) ==
    [kind |-> "QickSweep", reg |-> "mw_channel.freq",
     start |-> "mw_start_fMHz", stop |-> "mw_end_fMHz",
     expts |-> c.nsweep_points, scaling_mode |-> ""]

LockinPreInit(c) ==
    IF c.pre_init
    THEN << [HW("initialize", "pulse") EXCEPT !.ch = c.mw_channel],
            [HW("initialize", "trigger") EXCEPT
                !.pins = {c.laser_gate_pmod},
                !.width = c.readout_integration_treg,
                !.adc_trig_offset = 0, !.t = 0],
            [HW("initialize", "sync_all") EXCEPT
                !.t = c.readout_integration_treg + c.relax_delay_treg] >>
    ELSE <<>>

LockinInitializeCalls(c) ==
    << [HW("initialize", "declare_readout") EXCEPT
            !.ch = c.adc_channel, !.length = c.readout_integration_treg],
       [HW("initialize", "declare_gen") EXCEPT !.ch = c.mw_channel],
       [HW("initialize", "set_pulse_registers") EXCEPT
            !.ch = c.mw_channel, !.length = c.readout_integration_treg],
       [HW("initialize", "get_gen_reg") EXCEPT !.ch = c.mw_channel],
       [HW("initialize", "add_sweep") EXCEPT !.sweep = LockinSweep(c)],
       [HW("initialize", "synci") EXCEPT !.t = 400] >>
    \o LockinPreInit(c)

LockinPulseTimeLate(c) ==
    c.readout_integration_treg + c.relax_delay_treg
        + 2 * c.adc_trigger_offset_treg

LockinPulseTime(c) == c.adc_trigger_offset_treg

LockinSecondAdcTime(c) ==
    c.readout_integration_treg + c.relax_delay_treg
        + 2 * c.adc_trigger_offset_treg

LockinBodyCalls(c) ==
    << [HW("body", "trigger") EXCEPT
            !.pins = {c.laser_gate_pmod},
            !.width = c.readout_integration_treg + c.adc_trigger_offset_treg,
            !.adc_trig_offset = 0, !.t = 0],
       [HW("body", "trigger") EXCEPT
            !.adcs = {c.adc_channel},
            !.width = c.readout_integration_treg,
            !.adc_trig_offset = 0, !.t = c.adc_trigger_offset_treg],
       [HW("body", "pulse") EXCEPT
            !.ch = c.mw_channel, !.t = LockinPulseTime(c)],
       [HW("body", "trigger") EXCEPT
            !.pins = {c.laser_gate_pmod},
            !.width = c.readout_integration_treg + c.adc_trigger_offset_treg,
            !.adc_trig_offset = 0,
            !.t = c.readout_integration_treg + c.relax_delay_treg
                    + c.adc_trigger_offset_treg],
       [HW("body", "trigger") EXCEPT
            !.adcs = {c.adc_channel},
            !.width = c.readout_integration_treg,
            !.adc_trig_offset = 0, !.t = LockinSecondAdcTime(c)],
       [HW("body", "sync_all") EXCEPT !.t = c.relax_delay_treg],
       HW("body", "wait_all") >>

(***************************************************************************)
(* RabiSweep_johns                                                         *)
(***************************************************************************)
RabiSweep(c) ==
    [kind |-> "NVQickSweep", reg |-> "mw_channel.length",
     start |-> "mw_start_treg", stop |-> "mw_end_treg",
     expts |-> c.nsweep_points, scaling_mode |-> ""]

RabiPreInit(c) ==
    IF c.pre_init
    THEN << [HW("initialize", "trigger") EXCEPT
                !.pins = {c.laser_gate_pmod},
                !.width = c.laser_initialize_treg,
                !.adc_trig_offset = c.adc_trigger_offset_treg, !.t = 0],
            [HW("initialize", "sync_all") EXCEPT
                !.t = c.laser_initialize_treg] >>
    ELSE <<>>

RabiInitializeCalls(c) ==
    << [HW("initialize", "declare_readout") EXCEPT
            !.ch = c.adc_channel, !.length = c.readout_integration_treg],
       [HW("initialize", "declare_gen") EXCEPT !.ch = c.mw_channel],
       [HW("initialize", "default_pulse_registers") EXCEPT
            !.ch = c.mw_channel],
       [HW("initialize", "set_pulse_registers") EXCEPT
            !.ch = c.mw_channel, !.length = c.mw_start_treg],
       [HW("initialize", "new_gen_reg") EXCEPT !.ch = c.mw_channel],
       [HW("initialize", "add_sweep") EXCEPT !.sweep = RabiSweep(c)],
       [HW("initialize", "synci") EXCEPT !.t = 400] >>
    \o RabiPreInit(c)
    \o << HW("initialize", "wait_all"),
          [HW("initialize", "sync_all") EXCEPT !.t = c.relax_delay_treg] >>

RabiBodyCalls(c) ==
    LET t1 == c.laser_initialize_treg
        t2 == t1 + c.mw_delay_treg
        t3 == t2 + c.readout_integration_treg
        t4 == t3 + c.mw_delay_treg + c.mw_delay_treg + c.mw_end_treg
    IN
    << [HW("body", "trigger") EXCEPT
            !.pins = {c.laser_gate_pmod},
            !.width = c.laser_initialize_treg,
            !.adc_trig_offset = 0, !.t = 0],
       [HW("body", "pulse") EXCEPT !.ch = c.mw_channel, !.t = t1],
       HW("body", "sync"),
       [HW("body", "trigger") EXCEPT
            !.adcs = {c.adc_channel}, !.pins = {c.laser_gate_pmod},
            !.width = c.readout_integration_treg,
            !.adc_trig_offset = c.adc_trig_offset_treg, !.t = t2],
       [HW("body", "trigger") EXCEPT
            !.pins = {c.laser_gate_pmod},
            !.width = c.laser_initialize_treg,
            !.adc_trig_offset = 0, !.t = t3],
       [HW("body", "trigger") EXCEPT
            !.adcs = {c.adc_channel}, !.pins = {c.laser_gate_pmod},
            !.width = c.readout_integration_treg,
            !.adc_trig_offset = c.adc_trig_offset_treg, !.t = t4],
       [HW("body", "sync_all") EXCEPT !.t = c.relax_delay_treg],
       HW("body", "wait_all") >>

(***************************************************************************)
(* T1DelaySweep                                                            *)
(***************************************************************************)
T1Sweep(c) ==
    [kind |-> "NVQickSweep", reg |-> "mw_channel.delay",
     start |-> "delay_start_treg", stop |-> "delay_end_treg",
     expts |-> c.nsweep_points,
     scaling_mode |-> IF c.scaling_mode = "exponential"
                      THEN "exponential" ELSE ""]

T1AddSweepExponentialOnly(c) ==
    IF c.scaling_mode = "exponential"
    THEN << [HW("initialize", "add_sweep") EXCEPT !.sweep = T1Sweep(c)] >>
    ELSE <<>>

T1AddSweep(c) ==
    IF c.scaling_mode = "exponential"
    THEN << [HW("initialize", "add_sweep") EXCEPT !.sweep = T1Sweep(c)] >>
    ELSE IF c.scaling_mode = "linear"
    THEN << [HW("initialize", "add_sweep") EXCEPT !.sweep = T1Sweep(c)] >>
    ELSE <<>>

T1PreInit(c) ==
    IF c.pre_init
    THEN << [HW("initialize", "trigger") EXCEPT
                !.pins = {c.laser_gate_pmod}, !.width = c.laser_on_treg,
                !.adc_trig_offset = 0, !.t = 0],
            [HW("initialize", "sync_all") EXCEPT
                !.t = c.laser_on_treg + c.relax_delay_treg] >>
    ELSE <<>>

T1InitializeCalls(c) ==
    << [HW("initialize", "declare_readout") EXCEPT
            !.ch = 0, !.length = c.readout_integration_treg],
       [HW("initialize", "declare_gen") EXCEPT !.ch = c.mw_channel],
       [HW("initialize", "default_pulse_registers") EXCEPT
            !.ch = c.mw_channel, !.length = c.mw_pi2_treg],
       [HW("initialize", "set_pulse_registers") EXCEPT !.ch = c.mw_channel],
       [HW("initialize", "new_gen_reg") EXCEPT !.ch = c.mw_channel] >>
    \o T1AddSweep(c)
    \o << [HW("initialize", "synci") EXCEPT !.t = 400] >>
    \o T1PreInit(c)

T1BodyCalls(c) ==
    << [HW("body", "pulse") EXCEPT !.ch = c.mw_channel, !.t = 0],
       [HW("body", "pulse") EXCEPT !.ch = c.mw_channel, !.t = c.mw_pi2_treg],
       [HW("body", "synci") EXCEPT !.t = c.mw_pi2_treg * 2],
       HW("body", "sync"),
       [HW("body", "sync_all") EXCEPT !.t = c.mw_readout_delay_treg],
       HW("body", "ttl_readout"),
       [HW("body", "synci") EXCEPT !.t = c.mw_pi2_treg * 2],
       HW("body", "sync"),
       [HW("body", "sync_all") EXCEPT !.t = c.mw_readout_delay_treg],
       HW("body", "ttl_readout") >>

(***************************************************************************)
(* The three classes side by side.                                         *)
(***************************************************************************)
InitializeRaises(k, c) == k = Lockin /\ LockinGainTooHigh(c)

InitializeCalls(k, c) ==
    CASE k = Lockin -> IF LockinGainTooHigh(c) THEN <<>>
                       ELSE LockinInitializeCalls(c)
      [] k = Rabi -> RabiInitializeCalls(c)
      [] k = T1 -> T1InitializeCalls(c)

BodyCalls(k, c) ==
    CASE k = Lockin -> LockinBodyCalls(c)
      [] k = Rabi -> RabiBodyCalls(c)
      [] k = T1 -> T1BodyCalls(c)

(***************************************************************************)
(* Arrays and the numpy operations analyze_results uses.                   *)
(***************************************************************************)
Arr(shape, flat) == [shape |-> shape, flat |-> flat]

Rank(a) == Len(a.shape)

\* a / k for a scalar k
DivScalar(a, k) ==
    Arr(a.shape, [j \in 1..Len(a.flat) |-> RDiv(a.flat[j], RInt(k))])

\* a[..., i]: index i (0-based) of the last axis
TakeLast(a, i) ==
    LET r == Rank(a)
        L == a.shape[r]
        sh == SubSeq(a.shape, 1, r - 1)
    IN  Arr(sh, [j \in 1..Prod(sh) |-> a.flat[(j - 1) * L + i + 1]])

\* np.mean(a, axis=-1)
MeanAxisLast(a) ==
    LET r == Rank(a)
        L == a.shape[r]
        sh == SubSeq(a.shape, 1, r - 1)
    IN  Arr(sh, [j \in 1..Prod(sh) |->
                    RDiv(RSum([i \in 1..L |-> a.flat[(j - 1) * L + i]]),
                         RInt(L))])

\* np.mean(a, axis=0)
MeanAxis0(a) ==
    LET n == a.shape[1]
        sh == Tail(a.shape)
        R == Prod(sh)
    IN  Arr(sh, [j \in 1..R |->
                    RDiv(RSum([i \in 1..n |-> a.flat[(i - 1) * R + j]]),
                         RInt(n))])

\* for _ in range(n): a = np.mean(a, axis=0)
RECURSIVE MeanTimes(_, _)
MeanTimes(a, n) == IF n <= 0 THEN a ELSE MeanTimes(MeanAxis0(a), n - 1)

\* a - b, element-wise on arrays of one shape
ESub(a, b) ==
    Arr(a.shape, [j \in 1..Len(a.flat) |-> RSub(a.flat[j], b.flat[j])])

\* a / b, element-wise on arrays of one shape
EDiv(a, b) ==
    Arr(a.shape, [j \in 1..Len(a.flat) |-> RDiv(a.flat[j], b.flat[j])])

\* (s - r) / r * 100, element-wise
ContrastOf(s, r) ==
    LET diff == ESub(s, r)
        quot == EDiv(diff, r)
    IN  Arr(quot.shape,
            [j \in 1..Len(quot.flat) |-> RMul(quot.flat[j], RInt(100))])

(***************************************************************************)
(* Results.  A call returns an ItemAttribute (kind "item") with named      *)
(* attributes, the raw reads (kind "raw"), or nothing when it raised.      *)
(***************************************************************************)
NoResult == [kind |-> "none", attrs |-> <<>>, err |-> ""]
Raised(e) == [kind |-> "none", attrs |-> <<>>, err |-> e]
RawResult == [kind |-> "raw", attrs |-> <<>>, err |-> ""]
Item(attrs) == [kind |-> "item", attrs |-> attrs, err |-> ""]

\* data[..., 1] is the reference, data[..., 0] the signal
ReferenceIndex == 1

SignalIndexSwapped == ReferenceIndex

SignalIndex == 0

RankHandledAny(r) == TRUE

\* the if / elif chain on len(self.data_shape): no else branch
RankHandled(r) == r = 2 \/ r = 3 \/ r = 4

\* the statements shared by both analyze_results: reshape, divide, select
Selected(d, shape, c) ==
    LET a == DivScalar(Arr(shape, [j \in 1..Len(d) |-> RInt(d[j])]),
                       c.readout_integration_treg)
    IN  [signal |-> TakeLast(a, SignalIndex),
         reference |-> TakeLast(a, ReferenceIndex)]

LockinAnalyzeResults(d, shape, c, sweeps) ==
    IF Len(d) # Prod(shape) THEN Raised("ValueError")
    ELSE IF ~RankHandled(Len(shape)) THEN Raised("UnboundLocalError")
    ELSE IF shape[Len(shape)] <= ReferenceIndex THEN Raised("IndexError")
    ELSE IF sweeps = <<>> THEN Raised("IndexError")
    ELSE
    LET sel == Selected(d, shape, c)
        odmr == ESub(sel.signal, sel.reference)
        odmr_contrast == ContrastOf(sel.signal, sel.reference)
        n == Rank(odmr) - 1
    IN  Item([odmr |-> MeanTimes(odmr, n).flat,
              signal |-> MeanTimes(sel.signal, n).flat,
              reference |-> MeanTimes(sel.reference, n).flat,
              odmr_contrast |-> MeanTimes(odmr_contrast, n).flat,
              frequencies |-> sweeps[1]])

RabiAnalyzeResults(d, shape, c, sweeps) ==
    IF Len(d) # Prod(shape) THEN Raised("ValueError")
    ELSE IF ~RankHandled(Len(shape)) THEN Raised("UnboundLocalError")
    ELSE IF shape[Len(shape)] <= ReferenceIndex THEN Raised("IndexError")
    ELSE IF sweeps = <<>> THEN Raised("IndexError")
    ELSE
    LET sel == Selected(d, shape, c)
        n == Rank(sel.signal) - 1
        signal == MeanTimes(sel.signal, n)
        reference == MeanTimes(sel.reference, n)
    IN  Item([signal |-> signal.flat,
              reference |-> reference.flat,
              contrast |-> ContrastOf(signal, reference).flat,
              sweep_treg |-> sweeps[1],
              sweep_tus |-> [sweeps[1] EXCEPT !.kind = "cycles2us"]])

AnalyzeResults(k, d, shape, c, sweeps) ==
    IF k = Lockin THEN LockinAnalyzeResults(d, shape, c, sweeps)
    ELSE RabiAnalyzeResults(d, shape, c, sweeps)

(***************************************************************************)
(* acquire()                                                               *)
(***************************************************************************)
ReadsPerRepFour(k) == 4

\* the reads_per_rep that acquire() passes to the base class
ReadsPerRep(k) ==
    CASE k = Lockin -> 2
      [] k = Rabi -> 2
      [] k = T1 -> 4

\* the leading axes (rounds, reps) the base class puts before the sweep axis
Leads == UNION {[1..r -> 1..MaxDim] : r \in 0..2}

\* data_shape as the base class sets it: leading axes, sweep points, reads
BaseDataShape(lead, c, rpr) == lead \o <<c.nsweep_points, rpr>>

\* The reads the base class returns: the last axis runs over the reads of
\* one repetition in the order body() triggered the ADC, and each read is
\* the level accumulated over the readout_integration_treg samples.
BaseReads(shape, c, lv) ==
    [j \in 1..Prod(shape) |->
        lv[(((j - 1) % shape[Len(shape)]) % Len(lv)) + 1]
            * c.readout_integration_treg]

(***************************************************************************)
(* Life cycle: construct, initialize(), body(), acquire(),                 *)
(* analyze_results().                                                      *)
(***************************************************************************)
Init ==
    /\ cls \in Classes
    /\ cfg \in Cfgs(cls)
    /\ cfgAttrs \in {AllAttrs, AllAttrs \ {"nsweep_points"}}
    /\ pc = "constructed"
    /\ calls = <<>>
    /\ qick_sweeps = <<>>
    /\ reads_per_rep = 0
    /\ levels = <<>>
    /\ data_shape = <<>>
    /\ data = <<>>
    /\ result = NoResult
    /\ err = ""

Initialize(k) ==
    /\ pc = "constructed"
    /\ cls = k
    /\ IF ~CheckCfg(k, cfgAttrs) \/ InitializeRaises(k, cfg)
       THEN /\ pc' = "failed"
            /\ err' = "AssertionError"
            /\ UNCHANGED <<calls, qick_sweeps>>
       ELSE /\ pc' = "initialized"
            /\ calls' = InitializeCalls(k, cfg)
            /\ qick_sweeps' = SweepsOf(InitializeCalls(k, cfg))
            /\ err' = ""
    /\ UNCHANGED <<cls, cfg, cfgAttrs, reads_per_rep, levels, data_shape,
                   data, result>>

InitializeLockin == Initialize(Lockin)
InitializeRabi == Initialize(Rabi)
InitializeT1 == Initialize(T1)

Body(k) ==
    /\ pc = "initialized"
    /\ cls = k
    /\ calls' = calls \o BodyCalls(k, cfg)
    /\ pc' = "compiled"
    /\ UNCHANGED <<cls, cfg, cfgAttrs, qick_sweeps, reads_per_rep, levels,
                   data_shape, data, result, err>>

BodyLockin == Body(Lockin)
BodyRabi == Body(Rabi)
BodyT1 == Body(T1)

\* acquire() of LockinODMR_johns and RabiSweep_johns.  It overwrites the
\* reads, data_shape and the result, so a second acquire() reaches no state
\* the first cannot; one acquire() per program object is followed.
\* T1DelaySweep.acquire hands its reads to analyze_pulse_sequence_results
\* of the base class, which is outside these files, and is not an action.
Acquire(k) ==
    /\ pc = "compiled"
    /\ cls = k
    /\ \E lead \in Leads, raw_data \in BOOLEAN,
          lv \in [1..Len(AdcTriggers(calls)) -> 1..MaxRead] :
          LET rpr == ReadsPerRep(k)
              shape == BaseDataShape(lead, cfg, rpr)
              d == BaseReads(shape, cfg, lv)
              res == IF raw_data THEN RawResult
                     ELSE AnalyzeResults(k, d, shape, cfg, qick_sweeps)
          IN  /\ reads_per_rep' = rpr
              /\ levels' = lv
              /\ data_shape' = shape
              /\ data' = d
              /\ result' = res
              /\ err' = res.err
    /\ pc' = "acquired"
    /\ UNCHANGED <<cls, cfg, cfgAttrs, calls, qick_sweeps>>

AcquireLockin == Acquire(Lockin)
AcquireRabi == Acquire(Rabi)

AnalyzeResultsCall(k) ==
    /\ pc = "acquired"
    /\ cls = k
    /\ result.kind = "raw"
    /\ result' = AnalyzeResults(k, data, data_shape, cfg, qick_sweeps)
    /\ err' = result'.err
    /\ pc' = "analyzed"
    /\ UNCHANGED <<cls, cfg, cfgAttrs, calls, qick_sweeps, reads_per_rep,
                   levels, data_shape, data>>

AnalyzeLockin == AnalyzeResultsCall(Lockin)
AnalyzeRabi == AnalyzeResultsCall(Rabi)

Next ==
    \/ InitializeLockin
    \/ InitializeRabi
    \/ InitializeT1
    \/ BodyLockin
    \/ BodyRabi
    \/ BodyT1
    \/ AcquireLockin
    \/ AcquireRabi
    \/ AnalyzeLockin
    \/ AnalyzeRabi

Spec == Init /\ [][Next]_vars

(***************************************************************************)
(* analyze_results() as a function of the reads: the program is compiled,  *)
(* acquire(raw_data=True) has returned and data_shape and the reads are    *)
(* drawn from every shape and every level within the bounds.               *)
(***************************************************************************)
Shapes(k) ==
    {s \in UNION {[1..r -> 1..MaxDim] : r \in 1..MaxRank} :
        /\ Prod(s) <= MaxElems
        /\ Len(s) >= 2 => s[Len(s)] = ReadsPerRep(k)}

AnalysisCfg(ri) == CfgOf(ri, 0, 0, FALSE, MaxGain, 1, "linear")

InitAnalysis ==
    /\ cls \in {Lockin, Rabi}
    /\ cfg \in {AnalysisCfg(ri) : ri \in 1..MaxTreg}
    /\ cfgAttrs = AllAttrs
    /\ pc = "acquired"
    /\ calls = InitializeCalls(cls, cfg) \o BodyCalls(cls, cfg)
    /\ qick_sweeps = SweepsOf(InitializeCalls(cls, cfg))
    /\ reads_per_rep = ReadsPerRep(cls)
    /\ levels = <<>>
    /\ data_shape \in Shapes(cls)
    /\ data \in [1..Prod(data_shape) -> 1..MaxRead]
    /\ result = RawResult
    /\ err = ""

NextAnalysis == AnalyzeLockin \/ AnalyzeRabi

SpecAnalysis == InitAnalysis /\ [][NextAnalysis]_vars

(***************************************************************************)
(* Properties.                                                             *)
(***************************************************************************)
Started == pc \notin {"constructed", "failed"}
Compiled == pc \in {"compiled", "acquired", "analyzed"}
Acquired == pc \in {"acquired", "analyzed"}

ExpectedSweep(k, c) ==
    CASE k = Lockin ->
           [reg |-> "mw_channel.freq", start |-> "mw_start_fMHz",
            stop |-> "mw_end_fMHz"]
      [] k = Rabi ->
           [reg |-> "mw_channel.length", start |-> "mw_start_treg",
            stop |-> "mw_end_treg"]
      [] k = T1 ->
           [reg |-> "mw_channel.delay", start |-> "delay_start_treg",
            stop |-> "delay_end_treg"]

\* C1: once initialize() has returned for a configuration that passed
\* check_cfg, exactly one sweep is registered, over the class's register,
\* from the class's start attribute to its end attribute, with
\* nsweep_points points, whatever scaling_mode is.
C1_ExactlyOneSweep ==
    (Started /\ CheckCfg(cls, cfgAttrs)) =>
        /\ Len(qick_sweeps) = 1
        /\ Len(SelectSeq(calls, LAMBDA k : k.op = "add_sweep")) = 1
        /\ qick_sweeps[1].expts = cfg.nsweep_points
        /\ qick_sweeps[1].reg = ExpectedSweep(cls, cfg).reg
        /\ qick_sweeps[1].start = ExpectedSweep(cls, cfg).start
        /\ qick_sweeps[1].stop = ExpectedSweep(cls, cfg).stop

\* the calls initialize() followed by body() issue for configuration c
ProgramOps(k, c) ==
    IF InitializeRaises(k, c) THEN <<>>
    ELSE Ops(InitializeCalls(k, c) \o BodyCalls(k, c))

\* C2 as stated: the sequence of hardware calls of initialize() followed by
\* body() is the same for every configuration of the class.
C2_SameCallsForEveryCfg ==
    pc = "compiled" => \A c2 \in Cfgs(cls) : ProgramOps(cls, c2) = Ops(calls)

\* the configuration values initialize() branches on
BranchKey(k, c) ==
    << c.pre_init,
       k = Lockin /\ c.mw_gain > MaxGain,
       k = T1 /\ c.scaling_mode \notin {"exponential", "linear"} >>

\* C2 as amended: the calls body() issues are the same for every
\* configuration, and the calls initialize() issues are the same for every
\* two configurations that agree on pre_init, on whether mw_gain exceeds
\* 30000 (LockinODMR_johns) and on whether scaling_mode is one of
\* 'exponential' and 'linear' (T1DelaySweep).
C2_CallsFixedUpToBranches ==
    pc = "compiled" =>
        /\ \A c2 \in Cfgs(cls) :
             BranchKey(cls, c2) = BranchKey(cls, cfg) =>
                Ops(InitializeCalls(cls, c2))
                    = Ops(IssuedBy(calls, "initialize"))
        /\ \A c2 \in Cfgs(cls) :
             Ops(BodyCalls(cls, c2)) = Ops(IssuedBy(calls, "body"))

C2_Witness ==
    /\ cls = T1
    /\ pc = "compiled"
    /\ cfg.pre_init
    /\ cfg.scaling_mode = "linear"

\* the length of the microwave pulse, as set by set_pulse_registers
MwPulseLength ==
    LET set == SelectSeq(calls, LAMBDA k : k.op = "set_pulse_registers")
    IN  set[Len(set)].length

\* the length of the ADC window, as set by declare_readout
ReadoutLength ==
    LET dec == SelectSeq(calls, LAMBDA k : k.op = "declare_readout")
    IN  dec[Len(dec)].length

BodyPulses ==
    SelectSeq(IssuedBy(calls, "body"),
              LAMBDA k : k.op = "pulse" /\ k.ch = cfg.mw_channel)

\* C3: body() of LockinODMR_johns triggers the ADC exactly twice, on
\* adc_channel, each time for readout_integration_treg; the one microwave
\* pulse starts with the first window at adc_trigger_offset_treg and lasts
\* as long as it, and it does not overlap the second window.
C3_LockinTwoAcquisitions ==
    (cls = Lockin /\ Compiled) =>
        LET adc == AdcTriggers(calls)
            ri == cfg.readout_integration_treg
        IN  /\ Len(adc) = 2
            /\ \A i \in 1..Len(adc) :
                 /\ adc[i].adcs = {cfg.adc_channel}
                 /\ adc[i].width = ri
            /\ ReadoutLength = ri
            /\ Len(BodyPulses) = 1
            /\ BodyPulses[1].t = cfg.adc_trigger_offset_treg
            /\ BodyPulses[1].t = adc[1].t + adc[1].adc_trig_offset
            /\ MwPulseLength = ri
            /\ (cfg.relax_delay_treg >= 0 /\ cfg.adc_trigger_offset_treg >= 0)
                 => \/ BodyPulses[1].t + MwPulseLength
                          <= adc[2].t + adc[2].adc_trig_offset
                    \/ adc[2].t + adc[2].adc_trig_offset + ReadoutLength
                          <= BodyPulses[1].t

\* the closest case: no relaxation delay and no trigger offset
C3_Witness ==
    /\ cls = Lockin
    /\ pc = "compiled"
    /\ cfg.relax_delay_treg = 0
    /\ cfg.adc_trigger_offset_treg = 0
    /\ cfg.readout_integration_treg = MaxTreg

AsArr(flat) == Arr(<<Len(flat)>>, flat)

\* C4: the odmr_contrast LockinODMR_johns.analyze_results returns equals
\* (signal - reference) / reference * 100 computed element-wise from the
\* signal and reference it returns.
C4_ContrastFromReturnedTraces ==
    (cls = Lockin /\ result.kind = "item") =>
        result.attrs.odmr_contrast
            = ContrastOf(AsArr(result.attrs.signal),
                         AsArr(result.attrs.reference)).flat

RECURSIVE SumOver(_, _)
SumOver(f, S) ==
    IF S = {} THEN 0
    ELSE LET j == CHOOSE x \in S : TRUE IN f[j] + SumOver(f, S \ {j})

\* positions of data that hold read i (0-based) of sweep point k (1-based)
ReadsOf(k, i) ==
    LET r == Len(data_shape)
        L == data_shape[r]
        n == data_shape[r - 1]
    IN  {j \in 1..Len(data) :
            /\ (j - 1) % L = i
            /\ ((j - 1) \div L) % n = k - 1}

\* the mean of those reads, divided by readout_integration_treg
DirectMean(k, i) ==
    Norm(SumOver(data, ReadsOf(k, i)),
         Cardinality(ReadsOf(k, i)) * cfg.readout_integration_treg)

\* C5: for data_shape of rank 2, 3 or 4 analyze_results returns signal and
\* reference of length data_shape[-2]; signal[k] is the mean over the
\* leading axes of the reads at last-axis index 0 of sweep point k divided
\* by readout_integration_treg, reference[k] the same for index 1.
C5_TracesAreMeans ==
    (pc = "analyzed" /\ Len(data_shape) \in {2, 3, 4}) =>
        /\ result.kind = "item"
        /\ Len(result.attrs.signal) = data_shape[Len(data_shape) - 1]
        /\ Len(result.attrs.reference) = data_shape[Len(data_shape) - 1]
        /\ \A k \in 1..data_shape[Len(data_shape) - 1] :
             /\ result.attrs.signal[k] = DirectMean(k, 0)
             /\ result.attrs.reference[k] = DirectMean(k, 1)

\* rank 4 with two leading axes longer than one
C5_Witness ==
    /\ pc = "analyzed"
    /\ Len(data_shape) = 4
    /\ data_shape[1] = 2
    /\ data_shape[2] = 2
    /\ result.kind = "item"
    /\ result.attrs.signal # result.attrs.reference
    /\ cfg.readout_integration_treg = 2

\* the microwave pulse of body() covers the window of ADC trigger i
MwOnDuring(i) ==
    LET adc == AdcTriggers(calls)
        t0 == adc[i].t + adc[i].adc_trig_offset
    IN  \E p \in 1..Len(BodyPulses) :
           /\ BodyPulses[p].t <= t0
           /\ t0 + ReadoutLength <= BodyPulses[p].t + MwPulseLength

\* the microwave pulse of body() is off during the window of ADC trigger i
MwOffDuring(i) ==
    LET adc == AdcTriggers(calls)
        t0 == adc[i].t + adc[i].adc_trig_offset
    IN  \A p \in 1..Len(BodyPulses) :
           \/ BodyPulses[p].t + MwPulseLength <= t0
           \/ t0 + ReadoutLength <= BodyPulses[p].t

C7_RabiResultAttributes ==
    (cls = Rabi /\ result.kind = "item") =>
        /\ {"signal1", "signal2", "reference1", "reference2", "contrast1",
            "contrast2", "contrast", "sweep_treg", "sweep_tus"}
              \subseteq DOMAIN result.attrs
        /\ result.attrs.contrast1
             = ContrastOf(AsArr(result.attrs.signal1),
                          AsArr(result.attrs.reference1)).flat
        /\ result.attrs.contrast2
             = ContrastOf(AsArr(result.attrs.signal2),
                          AsArr(result.attrs.reference2)).flat
        /\ result.attrs.contrast
             = ESub(AsArr(result.attrs.contrast1),
                  AsArr(result.attrs.contrast2)).flat

\* C8: body() of RabiSweep_johns acquires four times: a readout and a
\* reference after the microwave pulse, then a readout and a reference
\* with no microwave pulse.
C8_RabiFourMeasurements ==
    (cls = Rabi /\ Compiled) =>
        /\ Len(AdcTriggers(calls)) = 4
        /\ Len(BodyPulses) = 1
        /\ \A i \in 1..Len(AdcTriggers(calls)) :
             BodyPulses[1].t < AdcTriggers(calls)[i].t

C10_OtherRanksRaise ==
    (pc = "analyzed" /\ Len(data_shape) \notin {2, 3, 4}) =>
        /\ result.kind = "none"
        /\ result.attrs = <<>>
        /\ err = "UnboundLocalError"

C10_Witness ==
    /\ pc = "analyzed"
    /\ Len(data_shape) = MaxRank
    /\ Len(data) > 2
    /\ err = "UnboundLocalError"

=============================================================================
